---- MODULE Spec2Model ----
(***************************************************************************)
(* LinuxEventHandler of core/src/location/manager/watcher/linux.rs:        *)
(* the per-location handler that debounces file updates, correlates the    *)
(* two halves of a rename and evicts pending state on a periodic tick.     *)
(*                                                                         *)
(* Time is a discrete clock `now`; one clock unit is HUNDRED_MILLIS.       *)
(* An Instant is the clock value at which it was taken, and                *)
(* instant.elapsed() is now - instant.  Every handler runs at one clock    *)
(* value.  The sink functions of super::utils (create_dir, update_file,    *)
(* remove, rename) and fs::metadata are external: each call either         *)
(* succeeds or returns an error, chosen nondeterministically.              *)
(***************************************************************************)
EXTENDS Integers, Sequences, FiniteSets, TLC

\* ------------------------------------------------------------------ bounds
MaxTime == 5

MaxEvents == 3

\* In the rename runs the watcher delivers this many events.
RenameEvents == 4

\* In the quiet runs the watcher delivers events up to this clock value only.
QuietFrom == 1

\* --------------------------------------------------------------- constants
HUNDRED_MILLIS == 1

Paths == {"a", "b"}
NoPath == "-"

VARIABLES
  now,                          \* the monotonic clock read by Instant::now()
  last_events_eviction_check,   \* Instant
  rename_from,                  \* HashMap<PathBuf, Instant>
  rename_from_buffer,           \* Vec<(PathBuf, Instant)>
  recently_renamed_from,        \* BTreeMap<PathBuf, Instant>
  files_to_update,              \* HashMap<PathBuf, Instant>
  files_to_update_buffer,       \* Vec<(PathBuf, Instant)>
  budget,                       \* number of events the watcher still delivers
  panicked,                     \* the handler's task has panicked
  calls,                        \* the sink calls made by the last handler run
  last,                         \* the last handler run and its result
  story                         \* per path, the history of its rename events (observer)

state == <<last_events_eviction_check, rename_from, rename_from_buffer,
           recently_renamed_from, files_to_update, files_to_update_buffer>>

vars == <<now, last_events_eviction_check, rename_from, rename_from_buffer,
          recently_renamed_from, files_to_update, files_to_update_buffer,
          budget, panicked, calls, last, story>>

\* ------------------------------------------------------------ map helpers
EmptyMap == [x \in {} |-> 0]

MapInsert(m, k, v) == [x \in (DOMAIN m) \cup {k} |-> IF x = k THEN v ELSE m[x]]

MapRemove(m, k) == [x \in (DOMAIN m) \ {k} |-> m[x]]

\* HashMap::extend / repeated insert of the (path, instant) pairs of a Vec.
RECURSIVE MapExtend(_, _)
MapExtend(m, pairs) ==
  IF pairs = <<>> THEN m
  ELSE MapExtend(MapInsert(m, Head(pairs)[1], Head(pairs)[2]), Tail(pairs))

\* HashMap::drain yields the entries in an unspecified order.
Orders(S) ==
  {s \in [1..Cardinality(S) -> S] : \A i, j \in 1..Cardinality(S) : i # j => s[i] # s[j]}

\* Instant::elapsed
Elapsed(instant) == now - instant

\* ------------------------------------------------------------- sink calls
Call(op, path, from, ok) == [op |-> op, path |-> path, from |-> from, ok |-> ok]

\* invalidate_query!(self.library, "search.paths")
InvalidateQuery == Call("invalidate_query", NoPath, NoPath, TRUE)

Ran(kind, path, to, ok) ==
  [kind |-> kind, path |-> path, to |-> to, ok |-> ok, upd_ok |-> TRUE, rf_ok |-> TRUE]

\* ------------------------------------------------------- history observer
\* story[p] records what the environment did to path p, independently of the
\* handler's maps:
\*   from_left  clock units left in which a RenameBoth(_, p) still arrives within
\*              HUNDRED_MILLIS of the last RenameFrom(p) (0: none, or too late)
\*   window     clock units left of the suppression window opened by the last
\*              successful RenameBoth(_, p) (0: none, closed, or used up)
\*   swept      a sweep called remove(p) since the last RenameFrom(p)
\*   phase      "resolved": the last rename event of p was a successful RenameBoth
\*              within HUNDRED_MILLIS of RenameFrom(p); "suppressed": it was a
\*              RenameFrom(p) inside the suppression window; "second": it was
\*              the RenameFrom(p) that followed a suppressed one; "none" otherwise
\*   kept       Remove(p) arrived while an update of p was pending, and no sweep
\*              has called update_file(p) since
NoStory ==
  [from_left |-> 0, window |-> 0, swept |-> FALSE, phase |-> "none", kept |-> FALSE]

StoryRenameFrom(path) ==
  [story EXCEPT ![path] =
     [from_left |-> HUNDRED_MILLIS + 1,
      window |-> 0,
      swept |-> FALSE,
      phase |-> IF story[path].window > 0 THEN "suppressed"
                ELSE IF story[path].phase = "suppressed" THEN "second"
                ELSE "none",
      kept |-> story[path].kept]]

StoryRenameBoth(from_path, ok) ==
  [story EXCEPT ![from_path] =
     IF ok
     THEN [from_left |-> 0,
           window |-> HUNDRED_MILLIS,
           swept |-> @.swept,
           phase |-> IF @.from_left > 0 THEN "resolved" ELSE "none",
           kept |-> @.kept]
     ELSE [@ EXCEPT !.from_left = 0, !.phase = "none"]]

StorySweep(cs) ==
  [p \in Paths |->
     [story[p] EXCEPT !.swept =
        @ \/ \E i \in 1..Len(cs) : cs[i].op = "remove" /\ cs[i].path = p,
                      !.kept =
        @ /\ ~\E i \in 1..Len(cs) : cs[i].op = "update_file" /\ cs[i].path = p]]

\* Remove(path) has arrived while an update of path was pending.
StoryRemove(path) ==
  [story EXCEPT ![path].kept = @ \/ path \in DOMAIN files_to_update]

StoryClock ==
  [p \in Paths |->
     [story[p] EXCEPT !.from_left = IF @ > 0 THEN @ - 1 ELSE 0,
                      !.window = IF @ > 0 THEN @ - 1 ELSE 0]]

\* ------------------------------------------------------------------- Init
New(events) ==
  /\ now = 0
  /\ last_events_eviction_check = 0
  /\ rename_from = EmptyMap
  /\ rename_from_buffer = <<>>
  /\ recently_renamed_from = EmptyMap
  /\ files_to_update = EmptyMap
  /\ files_to_update_buffer = <<>>
  /\ budget = events
  /\ panicked = FALSE
  /\ calls = <<>>
  /\ last = Ran("new", NoPath, NoPath, TRUE)
  /\ story = [p \in Paths |-> NoStory]

Init == New(MaxEvents)

\* ----------------------------------------------------------- handle_event
\* The watcher hands one more event to handle_event.
Receive ==
  /\ ~panicked
  /\ budget > 0
  /\ budget' = budget - 1

\* EventKind::Create(CreateKind::File) | EventKind::Modify(ModifyKind::Data(DataChange::Any))
OnDataEvent(path) == MapInsert(files_to_update, path, now)

\* A data arm that also forgets the path's pending rename-from entry.
HandleCreateFileOrModifyData_ClearsRename(path) ==
  /\ Receive
  /\ files_to_update' = OnDataEvent(path)
  /\ rename_from' = MapRemove(rename_from, path)
  /\ calls' = <<>>
  /\ last' = Ran("data", path, NoPath, TRUE)
  /\ UNCHANGED <<panicked, story, now, last_events_eviction_check, rename_from_buffer,
                 recently_renamed_from, files_to_update_buffer>>

HandleCreateFileOrModifyData(path) ==
  /\ Receive
  /\ files_to_update' = OnDataEvent(path)
  /\ calls' = <<>>
  /\ last' = Ran("data", path, NoPath, TRUE)
  /\ UNCHANGED <<panicked, story, now, last_events_eviction_check, rename_from, rename_from_buffer,
                 recently_renamed_from, files_to_update_buffer>>

\* EventKind::Create(CreateKind::Folder); outcome is that of fs::metadata and create_dir
HandleCreateFolder(path, outcome) ==
  /\ Receive
  /\ calls' = IF outcome = "meta_err" THEN <<>>
              ELSE <<Call("create_dir", path, NoPath, outcome = "ok")>>
  /\ last' = Ran("create_dir", path, NoPath, outcome = "ok")
  /\ UNCHANGED <<panicked, story, now, state>>

\* OnRenameFrom without the look-up in recently_renamed_from.
OnRenameFrom_NoLookup(path) ==
  [rename_from |-> MapInsert(rename_from, path, now),
   recently_renamed_from |-> recently_renamed_from]

\* EventKind::Modify(ModifyKind::Name(RenameMode::From))
OnRenameFrom(path) ==
  IF path \in DOMAIN recently_renamed_from
  THEN [rename_from |-> rename_from,
        recently_renamed_from |-> MapRemove(recently_renamed_from, path)]
  ELSE [rename_from |-> MapInsert(rename_from, path, now),
        recently_renamed_from |-> recently_renamed_from]

HandleRenameFrom(path) ==
  /\ Receive
  /\ rename_from' = OnRenameFrom(path).rename_from
  /\ recently_renamed_from' = OnRenameFrom(path).recently_renamed_from
  /\ calls' = <<>>
  /\ last' = Ran("rename_from", path, NoPath, TRUE)
  /\ story' = StoryRenameFrom(path)
  /\ UNCHANGED <<panicked, now, last_events_eviction_check, rename_from_buffer,
                 files_to_update, files_to_update_buffer>>

\* OnRenameBoth without self.rename_from.remove(from_path).
OnRenameBoth_KeepsPending(from_path, to_path, outcome) ==
  [rename_from |-> rename_from,
   calls |-> IF outcome = "meta_err" THEN <<>>
             ELSE <<Call("rename", to_path, from_path, outcome = "ok")>>,
   recently_renamed_from |->
     IF outcome = "ok" THEN MapInsert(recently_renamed_from, from_path, now)
     ELSE recently_renamed_from]

\* EventKind::Modify(ModifyKind::Name(RenameMode::Both)), paths = [from_path, to_path];
\* outcome is that of fs::metadata(to_path) and rename
OnRenameBoth(from_path, to_path, outcome) ==
  [rename_from |-> MapRemove(rename_from, from_path),
   calls |-> IF outcome = "meta_err" THEN <<>>
             ELSE <<Call("rename", to_path, from_path, outcome = "ok")>>,
   recently_renamed_from |->
     IF outcome = "ok" THEN MapInsert(recently_renamed_from, from_path, now)
     ELSE recently_renamed_from]

HandleRenameBoth(from_path, to_path, outcome) ==
  /\ Receive
  /\ rename_from' = OnRenameBoth(from_path, to_path, outcome).rename_from
  /\ recently_renamed_from' = OnRenameBoth(from_path, to_path, outcome).recently_renamed_from
  /\ calls' = OnRenameBoth(from_path, to_path, outcome).calls
  /\ last' = Ran("rename_both", from_path, to_path, outcome = "ok")
  /\ story' = StoryRenameBoth(from_path, outcome = "ok")
  /\ UNCHANGED <<panicked, now, last_events_eviction_check, rename_from_buffer,
                 files_to_update, files_to_update_buffer>>

\* EventKind::Remove(_)
HandleRemove(path, ok) ==
  /\ Receive
  /\ calls' = <<Call("remove", path, NoPath, ok)>>
  /\ last' = Ran("remove", path, NoPath, ok)
  /\ story' = StoryRemove(path)
  /\ UNCHANGED <<panicked, now, state>>

\* An event that carries fewer paths than its arm indexes: paths.remove(0) and
\* paths[0] on an empty Vec (lines 81, 85, 101, 107, 125) and paths[1] on a Vec of
\* one path (line 108) panic, before the arm has changed any field.
MalformedEvents ==
  {<<"data", 0>>, <<"create_dir", 0>>, <<"rename_from", 0>>,
   <<"rename_both", 0>>, <<"rename_both", 1>>, <<"remove", 0>>}

HandleMalformed(event) ==
  /\ Receive
  /\ panicked' = TRUE
  /\ calls' = <<>>
  /\ last' = Ran("malformed", NoPath, NoPath, FALSE)
  /\ UNCHANGED <<story, now, state>>

\* other_event_kind
HandleOther ==
  /\ Receive
  /\ calls' = <<>>
  /\ last' = Ran("other", NoPath, NoPath, TRUE)
  /\ UNCHANGED <<panicked, story, now, state>>

\* ------------------------------------------------------------------- tick
\* The drain loop of handle_to_update_eviction over the entries in drain order;
\* fail is the path whose update_file call returns an error (NoPath: none).
RECURSIVE UpdateDrain(_, _, _)
UpdateDrain(order, fail, acc) ==
  IF order = <<>> THEN acc
  ELSE LET path == Head(order)
           created_at == files_to_update[path]
       IN IF Elapsed(created_at) < HUNDRED_MILLIS * 5
          THEN UpdateDrain(Tail(order), fail,
                 [acc EXCEPT !.buffer = Append(@, <<path, created_at>>)])
          ELSE IF path = fail
               THEN [acc EXCEPT !.calls = Append(@, Call("update_file", path, NoPath, FALSE)),
                                !.ok = FALSE]
               ELSE UpdateDrain(Tail(order), fail,
                      [acc EXCEPT !.calls = Append(@, Call("update_file", path, NoPath, TRUE)),
                                  !.should_invalidate = TRUE])

\* handle_to_update_eviction: on an error the `?` returns at once, the Drain is
\* dropped (which empties the map) and the buffer is left as it is.
handle_to_update_eviction(order, fail) ==
  LET r == UpdateDrain(order, fail,
             [buffer |-> <<>>, calls |-> <<>>, should_invalidate |-> FALSE, ok |-> TRUE])
  IN IF r.ok
     THEN [files_to_update |-> MapExtend(EmptyMap, r.buffer),
           files_to_update_buffer |-> <<>>,
           calls |-> IF r.should_invalidate THEN Append(r.calls, InvalidateQuery) ELSE r.calls,
           ok |-> TRUE]
     ELSE [files_to_update |-> EmptyMap,
           files_to_update_buffer |-> r.buffer,
           calls |-> r.calls,
           ok |-> FALSE]

\* The drain loop of handle_rename_from_eviction.
RECURSIVE RenameFromDrain(_, _, _)
RenameFromDrain(order, fail, acc) ==
  IF order = <<>> THEN acc
  ELSE LET path == Head(order)
           instant == rename_from[path]
       IN IF Elapsed(instant) > HUNDRED_MILLIS
          THEN IF path = fail
               THEN [acc EXCEPT !.calls = Append(@, Call("remove", path, NoPath, FALSE)),
                                !.ok = FALSE]
               ELSE RenameFromDrain(Tail(order), fail,
                      [acc EXCEPT !.calls = Append(@, Call("remove", path, NoPath, TRUE)),
                                  !.should_invalidate = TRUE])
          ELSE RenameFromDrain(Tail(order), fail,
                 [acc EXCEPT !.buffer = Append(@, <<path, instant>>)])

\* A rename sweep without the rename_from_buffer.clear() of line 178: it starts
\* from whatever an earlier, failed sweep left in the buffer.
handle_rename_from_eviction_NoClear(order, fail) ==
  LET r == RenameFromDrain(order, fail,
             [buffer |-> rename_from_buffer, calls |-> <<>>,
              should_invalidate |-> FALSE, ok |-> TRUE])
  IN IF r.ok
     THEN [rename_from |-> MapExtend(EmptyMap, r.buffer),
           rename_from_buffer |-> <<>>,
           calls |-> IF r.should_invalidate THEN Append(r.calls, InvalidateQuery) ELSE r.calls,
           ok |-> TRUE]
     ELSE [rename_from |-> EmptyMap,
           rename_from_buffer |-> r.buffer,
           calls |-> r.calls,
           ok |-> FALSE]

handle_rename_from_eviction(order, fail) ==
  LET r == RenameFromDrain(order, fail,
             [buffer |-> <<>>, calls |-> <<>>, should_invalidate |-> FALSE, ok |-> TRUE])
  IN IF r.ok
     THEN [rename_from |-> MapExtend(EmptyMap, r.buffer),
           rename_from_buffer |-> <<>>,
           calls |-> IF r.should_invalidate THEN Append(r.calls, InvalidateQuery) ELSE r.calls,
           ok |-> TRUE]
     ELSE [rename_from |-> EmptyMap,
           rename_from_buffer |-> r.buffer,
           calls |-> r.calls,
           ok |-> FALSE]

\* A marker sweep that evicts nothing.
RetainRecent_KeepsAll(m) == m

\* RetainRecent with the comparison reversed.
RetainRecent_Reversed(m) ==
  [p \in {q \in DOMAIN m : Elapsed(m[q]) > HUNDRED_MILLIS} |-> m[p]]

\* self.recently_renamed_from.retain(|_, instant| instant.elapsed() < HUNDRED_MILLIS)
RetainRecent(m) ==
  [p \in {q \in DOMAIN m : Elapsed(m[q]) < HUNDRED_MILLIS} |-> m[p]]

\* The paths a sweep calls the sink for; a call for any one of them may fail.
UpdateDue == {p \in DOMAIN files_to_update : ~(Elapsed(files_to_update[p]) < HUNDRED_MILLIS * 5)}

RemoveDue == {p \in DOMAIN rename_from : Elapsed(rename_from[p]) > HUNDRED_MILLIS}

\* A cadence gate that opens at exactly HUNDRED_MILLIS.
EvictionDue_NotStrict == Elapsed(last_events_eviction_check) >= HUNDRED_MILLIS

\* A tick without the cadence gate.
EvictionDue_Ungated == TRUE

\* if self.last_events_eviction_check.elapsed() > HUNDRED_MILLIS
EvictionDue == Elapsed(last_events_eviction_check) > HUNDRED_MILLIS

\* A tick whose sweep steps propagate their error with `?`: the first failing
\* step ends the tick.
Tick_StopsAtFirstError ==
  /\ ~panicked
  /\ IF EvictionDue
     THEN \E ordU \in Orders(DOMAIN files_to_update), ordR \in Orders(DOMAIN rename_from),
             failU \in UpdateDue \cup {NoPath}, failR \in RemoveDue \cup {NoPath} :
            LET u == handle_to_update_eviction(ordU, failU)
                r == IF u.ok
                     THEN handle_rename_from_eviction(ordR, failR)
                     ELSE [rename_from |-> rename_from,
                           rename_from_buffer |-> rename_from_buffer,
                           calls |-> <<>>, ok |-> TRUE]
                done == u.ok /\ r.ok
            IN /\ files_to_update' = u.files_to_update
               /\ files_to_update_buffer' = u.files_to_update_buffer
               /\ rename_from' = r.rename_from
               /\ rename_from_buffer' = r.rename_from_buffer
               /\ recently_renamed_from' =
                    IF done THEN RetainRecent(recently_renamed_from) ELSE recently_renamed_from
               /\ last_events_eviction_check' =
                    IF done THEN now ELSE last_events_eviction_check
               /\ calls' = u.calls \o r.calls
               /\ last' = [Ran("tick", NoPath, NoPath, TRUE) EXCEPT !.upd_ok = u.ok, !.rf_ok = r.ok]
               /\ story' = StorySweep(u.calls \o r.calls)
               /\ UNCHANGED <<now, budget, panicked>>
     ELSE /\ calls' = <<>>
          /\ last' = Ran("tick_idle", NoPath, NoPath, TRUE)
          /\ UNCHANGED <<story, now, budget, panicked, state>>

Tick ==
  /\ ~panicked
  /\ IF EvictionDue
     THEN \E ordU \in Orders(DOMAIN files_to_update), ordR \in Orders(DOMAIN rename_from),
             failU \in UpdateDue \cup {NoPath}, failR \in RemoveDue \cup {NoPath} :
            LET u == handle_to_update_eviction(ordU, failU)
                r == handle_rename_from_eviction(ordR, failR)
            IN /\ files_to_update' = u.files_to_update
               /\ files_to_update_buffer' = u.files_to_update_buffer
               /\ rename_from' = r.rename_from
               /\ rename_from_buffer' = r.rename_from_buffer
               /\ recently_renamed_from' = RetainRecent(recently_renamed_from)
               /\ last_events_eviction_check' = now
               /\ calls' = u.calls \o r.calls
               /\ last' = [Ran("tick", NoPath, NoPath, TRUE) EXCEPT !.upd_ok = u.ok, !.rf_ok = r.ok]
               /\ story' = StorySweep(u.calls \o r.calls)
               /\ UNCHANGED <<now, budget, panicked>>
     ELSE /\ calls' = <<>>
          /\ last' = Ran("tick_idle", NoPath, NoPath, TRUE)
          /\ UNCHANGED <<story, now, budget, panicked, state>>

\* ------------------------------------------------------------------ clock
ClockStep(limit) ==
  /\ ~panicked
  /\ now < limit
  /\ now' = now + 1
  /\ calls' = <<>>
  /\ last' = Ran("clock", NoPath, NoPath, TRUE)
  /\ story' = StoryClock
  /\ UNCHANGED <<budget, panicked, state>>

AdvanceTime == ClockStep(MaxTime)

Outcomes == {"ok", "meta_err", "sink_err"}

HandleEvent ==
  \/ \E path \in Paths : HandleCreateFileOrModifyData(path)
  \/ \E path \in Paths, outcome \in Outcomes : HandleCreateFolder(path, outcome)
  \/ \E path \in Paths : HandleRenameFrom(path)
  \/ \E from_path \in Paths, outcome \in Outcomes :
       \E to_path \in Paths \ {from_path} : HandleRenameBoth(from_path, to_path, outcome)
  \/ \E path \in Paths, ok \in BOOLEAN : HandleRemove(path, ok)
  \/ HandleOther
  \/ \E event \in MalformedEvents : HandleMalformed(event)

Next ==
  \/ HandleEvent
  \/ Tick
  \/ AdvanceTime

Spec == Init /\ [][Next]_vars

\* ------------------------------------------------------------- rename runs
\* The runs of a handler that receives rename events only, over the time it
\* takes a rename-from entry to pass its timeout and the next sweep to run.
RenameMaxTime == HUNDRED_MILLIS * 3

InitRename == New(RenameEvents)

AdvanceTimeRename == ClockStep(RenameMaxTime)

RenameEvent ==
  \/ \E path \in Paths : HandleRenameFrom(path)
  \/ \E from_path \in Paths, outcome \in Outcomes :
       \E to_path \in Paths \ {from_path} : HandleRenameBoth(from_path, to_path, outcome)

NextRename ==
  \/ RenameEvent
  \/ Tick
  \/ AdvanceTimeRename

SpecRename == InitRename /\ [][NextRename]_vars

\* -------------------------------------------------------------- quiet runs
\* The runs in which events stop: the watcher delivers events up to QuietFrom
\* and then none, while the clock goes on for the update flush threshold and one
\* more tick interval and tick keeps being called.
QuietMaxTime == QuietFrom + HUNDRED_MILLIS * 5 + HUNDRED_MILLIS

AdvanceTimeQuiet == ClockStep(QuietMaxTime)

EventBeforeQuiet ==
  /\ now <= QuietFrom
  /\ HandleEvent

NextQuiet ==
  \/ EventBeforeQuiet
  \/ Tick
  \/ AdvanceTimeQuiet

SpecQuiet ==
  /\ Init
  /\ [][NextQuiet]_vars
  /\ WF_vars(Tick)
  /\ WF_vars(AdvanceTimeQuiet)

\* ----------------------------------------------------------------- claims
\* Number of calls of op for path p in a call sequence.
CountIn(cs, op, p) == Cardinality({i \in 1..Len(cs) : cs[i].op = op /\ cs[i].path = p})

\* C1. Debounce coalescing, as a property of every step: the pending entry of a
\* burst on p leaves PendingUpdate only in a step that emits update_file(p)
\* exactly once (the burst never ends with zero updates), and update_file(p) is
\* emitted at most once in a step and only for an entry that leaves PendingUpdate
\* (a burst never gets two).
C1_ExactlyOneUpdatePerBurst ==
  [][\A p \in Paths :
       /\ (p \in DOMAIN files_to_update /\ p \notin DOMAIN files_to_update')
            => CountIn(calls', "update_file", p) = 1
       /\ CountIn(calls', "update_file", p) <= 1
       /\ CountIn(calls', "update_file", p) = 1
            => (p \in DOMAIN files_to_update /\ p \notin DOMAIN files_to_update')]_vars

\* C2. No early flush: update_file(p) is emitted only by a sweep at which p's
\* entry is at least 5 * HUNDRED_MILLIS old; a data event on p sets p's timestamp
\* to the current time; and an entry younger than 5 * HUNDRED_MILLIS at a sweep
\* is still in the map after it, with the same timestamp.
C2_NoEarlyFlush ==
  [][/\ \A p \in Paths :
          CountIn(calls', "update_file", p) > 0
            => /\ last'.kind = "tick"
               /\ p \in DOMAIN files_to_update
               /\ Elapsed(files_to_update[p]) >= HUNDRED_MILLIS * 5
     /\ last'.kind = "data"
          => (last'.path \in DOMAIN files_to_update' /\ files_to_update'[last'.path] = now')
     /\ last'.kind = "tick"
          => \A p \in DOMAIN files_to_update :
               Elapsed(files_to_update[p]) < HUNDRED_MILLIS * 5
                 => (p \in DOMAIN files_to_update' /\ files_to_update'[p] = files_to_update[p])]_vars

\* C3. Rename happy path: a successful RenameBoth(B, A) makes exactly the one call
\* rename(B, A) and no other; and when it arrived within HUNDRED_MILLIS of
\* RenameFrom(A) (phase "resolved"), no sweep has called or calls remove(A) since
\* that RenameFrom(A), and A is not a key of PendingRenameFrom, for as long as no
\* new rename event for A arrives.
C3_RenameHappyPath ==
  /\ (last.kind = "rename_both" /\ last.ok)
       => calls = <<Call("rename", last.to, last.path, TRUE)>>
  /\ \A p \in Paths :
       story[p].phase = "resolved"
         => (~story[p].swept /\ p \notin DOMAIN rename_from)

\* A sweep has run after RenameFrom(A) and a timely successful RenameBoth(_, A).
C3_Witness ==
  \E p \in Paths : story[p].phase = "resolved" /\ last.kind = "tick"

C5_DanglingRemovedExactlyOnce ==
  [][\A p \in Paths :
       /\ (/\ p \in DOMAIN rename_from
           /\ p \notin DOMAIN rename_from'
           /\ ~(last'.kind = "rename_both" /\ last'.path = p))
            => (last'.kind = "tick" /\ CountIn(calls', "remove", p) = 1)
       /\ last'.kind = "tick"
            => /\ CountIn(calls', "remove", p) <= 1
               /\ CountIn(calls', "remove", p) = 1
                    => /\ p \in DOMAIN rename_from
                       /\ Elapsed(rename_from[p]) > HUNDRED_MILLIS
                       /\ p \notin DOMAIN rename_from']_vars

\* C6. A failed RenameBoth event leaves PendingRenameFrom, ResolvedRenameMarker
\* and PendingUpdate exactly as they were.
C6_FailedRenameBothMutatesNothing ==
  [][(last'.kind = "rename_both" /\ ~last'.ok)
       => /\ rename_from' = rename_from
          /\ recently_renamed_from' = recently_renamed_from
          /\ files_to_update' = files_to_update]_vars

\* C7. A sink error in a sweep is scoped to the entry being flushed: in every
\* sweep, whether or not a call fails, every expired entry of a map gets its sink
\* call and every entry younger than the threshold is still in the map, with its
\* timestamp, after the sweep.
C7_SweepErrorScopedToEntry ==
  [][last'.kind = "tick"
       => /\ \A p \in DOMAIN files_to_update :
               IF Elapsed(files_to_update[p]) < HUNDRED_MILLIS * 5
               THEN p \in DOMAIN files_to_update' /\ files_to_update'[p] = files_to_update[p]
               ELSE CountIn(calls', "update_file", p) = 1
          /\ \A p \in DOMAIN rename_from :
               IF Elapsed(rename_from[p]) > HUNDRED_MILLIS
               THEN CountIn(calls', "remove", p) = 1
               ELSE p \in DOMAIN rename_from' /\ rename_from'[p] = rename_from[p]]_vars

\* The mutations a sweep emitted: its update_file and remove calls that succeeded.
Emitted(cs) == {i \in 1..Len(cs) : cs[i].op \in {"update_file", "remove"} /\ cs[i].ok}

Notified(cs) == {i \in 1..Len(cs) : cs[i] = InvalidateQuery}

\* C8. A tick signals notify_changed if and only if its sweep emitted at least
\* one mutation.
C8_NotifyIffMutationEmitted ==
  last.kind = "tick" => ((Emitted(calls) # {}) <=> (Notified(calls) # {}))

\* C9. A tick signals notify_changed at most once.
C9_AtMostOneNotifyPerTick ==
  last.kind = "tick" => Cardinality(Notified(calls)) <= 1

\* C10. No path is at once a key of PendingRenameFrom (rename_from) and of
\* ResolvedRenameMarker (recently_renamed_from).
C10_PendingAndResolvedDisjoint ==
  (DOMAIN rename_from) \cap (DOMAIN recently_renamed_from) = {}

\* A successful RenameBoth has just moved a pending path into ResolvedRenameMarker.
C10_Witness ==
  /\ last.kind = "rename_both"
  /\ last.ok
  /\ story[last.path].phase = "resolved"
  /\ last.path \in DOMAIN recently_renamed_from

\* C11. The debouncer and the rename correlator are independent. A data event
\* leaves PendingRenameFrom and ResolvedRenameMarker as they were, and a rename
\* event leaves PendingUpdate as it was. In a tick, nothing is added to a map or
\* re-timestamped, and an entry leaves a map only through that map's own sweep
\* step: PendingUpdate loses an entry only when it is due for its flush or the
\* update sweep stopped on an error, PendingRenameFrom only when the entry is past
\* its timeout or the rename sweep stopped on an error, ResolvedRenameMarker only
\* when the entry's window is over. So a tick that flushes update_file(A) leaves
\* A's pending rename-from entry in place.
C11_DebouncerCorrelatorIndependent ==
  [][/\ last'.kind = "data"
          => /\ rename_from' = rename_from
             /\ recently_renamed_from' = recently_renamed_from
     /\ last'.kind \in {"rename_from", "rename_both"}
          => files_to_update' = files_to_update
     /\ last'.kind = "tick"
          => /\ \A p \in DOMAIN files_to_update' :
                  p \in DOMAIN files_to_update /\ files_to_update'[p] = files_to_update[p]
             /\ \A p \in DOMAIN rename_from' :
                  p \in DOMAIN rename_from /\ rename_from'[p] = rename_from[p]
             /\ \A p \in DOMAIN recently_renamed_from' :
                  /\ p \in DOMAIN recently_renamed_from
                  /\ recently_renamed_from'[p] = recently_renamed_from[p]
             /\ \A p \in (DOMAIN files_to_update) \ (DOMAIN files_to_update') :
                  Elapsed(files_to_update[p]) >= HUNDRED_MILLIS * 5 \/ ~last'.upd_ok
             /\ \A p \in (DOMAIN rename_from) \ (DOMAIN rename_from') :
                  Elapsed(rename_from[p]) > HUNDRED_MILLIS \/ ~last'.rf_ok
             /\ \A p \in (DOMAIN recently_renamed_from) \ (DOMAIN recently_renamed_from') :
                  Elapsed(recently_renamed_from[p]) >= HUNDRED_MILLIS]_vars

\* A tick has flushed update_file(p) while p's rename-from entry stays pending.
C11_Witness ==
  /\ last.kind = "tick"
  /\ \E p \in DOMAIN rename_from : CountIn(calls, "update_file", p) = 1

\* C12. A tick that directly follows another tick, with no event and no passage
\* of time in between, makes no sink call (no mutation, no notify_changed) and
\* leaves the three maps, the scratch buffers and the last-check timestamp as
\* they were.
C12_SweepIdempotent ==
  [][(last.kind \in {"tick", "tick_idle"} /\ last'.kind \in {"tick", "tick_idle"})
       => /\ calls' = <<>>
          /\ state' = state]_vars

\* A second tick has run at the instant of a sweep whose update step had
\* stopped on an error, with an entry still in the scratch buffer.
C12_Witness ==
  /\ last.kind = "tick_idle"
  /\ last_events_eviction_check = now
  /\ now > 0
  /\ files_to_update_buffer # <<>>

\* C13. An error in one sweep step of a tick does not stop the later steps of
\* that tick. When the update sweep stopped on an error the rename sweep has
\* still run (every rename-from entry past its timeout got its remove call, or
\* the rename sweep stopped on a failed remove of its own), and when either sweep
\* stopped on an error the marker sweep has still run (exactly the markers
\* younger than the window are left). The handler has not crashed and goes on
\* taking events and ticks.
C13_SweepStepsIndependentOfErrors ==
  [][last'.kind = "tick"
       => /\ ~last'.upd_ok
               => IF last'.rf_ok
                  THEN \A p \in DOMAIN rename_from :
                         Elapsed(rename_from[p]) > HUNDRED_MILLIS
                           => /\ CountIn(calls', "remove", p) = 1
                              /\ p \notin DOMAIN rename_from'
                  ELSE \E i \in 1..Len(calls') : calls'[i].op = "remove" /\ ~calls'[i].ok
          /\ (~last'.upd_ok \/ ~last'.rf_ok)
               => /\ DOMAIN recently_renamed_from' =
                       {p \in DOMAIN recently_renamed_from :
                          Elapsed(recently_renamed_from[p]) < HUNDRED_MILLIS}
                  /\ ~panicked']_vars

\* The update sweep of a tick has stopped on an error and the rename sweep of the
\* same tick has removed a dangling path.
C13_Witness ==
  /\ last.kind = "tick"
  /\ ~last.upd_ok
  /\ \E i \in 1..Len(calls) : calls[i].op = "remove" /\ calls[i].ok

\* C14. A malformed event (RenameBoth with fewer than two paths; create, modify,
\* rename-from or remove with no path) ends in an error for that event alone: the
\* handler has not crashed and its maps, buffers and last-check timestamp are as
\* they were.
C14_MalformedEventFailsAlone ==
  [][last'.kind = "malformed"
       => /\ ~last'.ok
          /\ ~panicked'
          /\ state' = state]_vars

\* C15. Cadence gate. A tick sweeps only when more than HUNDRED_MILLIS has
\* passed since the last check, and a tick that does not sweep changes nothing
\* and calls nothing; every tick that sweeps sets the last-check timestamp to the
\* current time, whether or not it found work and whether or not a step failed,
\* and nothing else moves that timestamp. Two sweeps are therefore more than
\* HUNDRED_MILLIS apart.
C15_CadenceGate ==
  [][/\ last'.kind = "tick"
          => /\ now - last_events_eviction_check > HUNDRED_MILLIS
             /\ last_events_eviction_check' = now
     /\ last'.kind = "tick_idle"
          => /\ now - last_events_eviction_check <= HUNDRED_MILLIS
             /\ calls' = <<>>
             /\ state' = state
     /\ last_events_eviction_check' # last_events_eviction_check
          => last'.kind = "tick"]_vars

\* A tick has swept, its rename step has stopped on an error, and the last-check
\* timestamp is the current time.
C15_Witness ==
  /\ last.kind = "tick"
  /\ ~last.rf_ok
  /\ last_events_eviction_check = now

\* C16. No state leak. Once events have stopped, with tick called again and
\* again while time advances, PendingUpdate, PendingRenameFrom and
\* ResolvedRenameMarker all become empty and stay empty, as long as the handler
\* is still running (it has not panicked).
C16_NoStateLeak ==
  <>[](\/ panicked
       \/ /\ files_to_update = EmptyMap
          /\ rename_from = EmptyMap
          /\ recently_renamed_from = EmptyMap)

\* After the last event, a tick has flushed a pending update and left the three
\* maps empty.
C16_Witness ==
  /\ now > QuietFrom
  /\ last.kind = "tick"
  /\ \E i \in 1..Len(calls) : calls[i].op = "update_file"
  /\ files_to_update = EmptyMap
  /\ rename_from = EmptyMap
  /\ recently_renamed_from = EmptyMap

\* C17. Suppression is limited to the window. A RenameFrom(A) is ignored only
\* if it arrives at most HUNDRED_MILLIS after the RenameBoth that resolved A (the
\* instant A's marker carries); a RenameFrom(A) that arrives later than that, or
\* with no marker for A, is recorded in PendingRenameFrom with the current time.
C17_SuppressionLimitedToWindow ==
  [][last'.kind = "rename_from"
       => LET A == last'.path
              recorded == A \in DOMAIN rename_from' /\ rename_from'[A] = now
          IN ~recorded
               => /\ A \in DOMAIN recently_renamed_from
                  /\ now - recently_renamed_from[A] <= HUNDRED_MILLIS]_vars

\* C18. An entry whose flush failed is dropped and never retried. After a sweep
\* in which update_file(p) or remove(p) returned an error, p is not a key of the
\* map it was flushed from. A sweep calls update_file or remove only for a path
\* that is a key of the map when the sweep starts, and a path becomes a key of
\* PendingUpdate only by a data event for it and of PendingRenameFrom only by a
\* RenameFrom event for it: no sweep puts back a path, from the scratch buffer
\* or from anywhere else.
C18_FailedFlushNeverRetried ==
  [][/\ last'.kind = "tick"
          => \A i \in 1..Len(calls') :
               /\ calls'[i].op = "update_file"
                    => /\ calls'[i].path \in DOMAIN files_to_update
                       /\ ~calls'[i].ok => calls'[i].path \notin DOMAIN files_to_update'
               /\ calls'[i].op = "remove"
                    => /\ calls'[i].path \in DOMAIN rename_from
                       /\ ~calls'[i].ok => calls'[i].path \notin DOMAIN rename_from'
     /\ \A p \in (DOMAIN files_to_update') \ (DOMAIN files_to_update) :
          last'.kind = "data" /\ last'.path = p
     /\ \A p \in (DOMAIN rename_from') \ (DOMAIN rename_from) :
          last'.kind = "rename_from" /\ last'.path = p]_vars

\* A remove has just failed in a sweep: PendingRenameFrom is empty and an entry
\* that was not yet due is left in the scratch buffer.
C18_Witness ==
  /\ last.kind = "tick"
  /\ ~last.rf_ok
  /\ rename_from = EmptyMap
  /\ rename_from_buffer # <<>>

\* C19. Suppression is one-shot. A RenameFrom(A) that finds A's marker removes
\* it, and only a successful RenameBoth(A, _) puts a marker for A; a RenameFrom(A)
\* that finds no marker is inserted into PendingRenameFrom with the current time.
\* So the second RenameFrom(A) after a suppressed one, with no RenameBoth in
\* between (phase "second"), is pending, and for as long as no new rename event
\* for A arrives it stays pending until a sweep has called remove(A).
C19_SuppressionOneShot ==
  [][/\ last'.kind = "rename_from"
          => LET A == last'.path
             IN /\ A \notin DOMAIN recently_renamed_from'
                /\ A \notin DOMAIN recently_renamed_from
                     => A \in DOMAIN rename_from' /\ rename_from'[A] = now
     /\ \A p \in (DOMAIN recently_renamed_from') \ (DOMAIN recently_renamed_from) :
          last'.kind = "rename_both" /\ last'.path = p /\ last'.ok
     /\ \A p \in Paths :
          story'[p].phase = "second"
            => (p \in DOMAIN rename_from' \/ story'[p].swept)]_vars

\* C20. Remove(p), CreateDir(p) and ignored events leave PendingUpdate,
\* PendingRenameFrom and ResolvedRenameMarker (and every other field) as they
\* were, whether they succeed or fail; and an update of p that was pending when
\* Remove(p) arrived stays pending until a sweep has called update_file(p).
C20_FrameOfRemoveCreateDirIgnored ==
  [][/\ last'.kind \in {"remove", "create_dir", "other"}
          => state' = state
     /\ \A p \in Paths :
          story'[p].kept => p \in DOMAIN files_to_update']_vars

====
